---------------------------- MODULE Spec2Model ----------------------------
(***************************************************************************)
(* osc2wss: the ingest / normalize / fan-out pipeline of src/main.rs.      *)
(*                                                                         *)
(* One Ingest Loop task reads OSC datagrams, turns every Message into a    *)
(* JSON string and sends it on a tokio broadcast channel of capacity 16;   *)
(* every upgraded WebSocket connection runs a Subscriber Task that         *)
(* subscribes to the channel and forwards what it receives as text frames. *)
(*                                                                         *)
(* The broadcast channel is modelled as tokio documents and implements it: *)
(* a ring of Capacity slots, each holding the position it was written at,  *)
(* the number of receivers that still have to see it and the value; a tail *)
(* position; the number of live receiver and sender handles; and one       *)
(* cursor per receiver.                                                    *)
(*                                                                         *)
(* The encoder of src/types.rs is modelled on JSON values and their text;  *)
(* SpecEnc runs it alone, on Messages of every argument variant and under  *)
(* both build profiles (with and without integer overflow checks).         *)
(***************************************************************************)
EXTENDS Integers, Sequences, FiniteSets, TLC

\* broadcast::channel(16)
Capacity == 16

\* The WebSocket connections the server accepts during a run, named in the
\* order it accepts them.
Conns == {"c1", "c2"}
AcceptedBefore(c) == {d \in Conns : d = "c1" /\ c = "c2"}

\* Bounds of the model: Message datagrams, Bundle datagrams, and the number of
\* items already published when a client may still connect.
MaxMessages == 17
MaxBundles == 2
MaxSubscribePos == 1

VARIABLES
    ingest,         \* the Ingest Loop task: "listening" or "panicked"
    ingestErr,      \* the Err the socket stream yielded, if any: "none", "decode"
    warned_bundle,  \* the loop's local flag
    warnings,       \* number of Bundle warnings printed
    nMessages,      \* Message datagrams decoded so far
    nBundles,       \* Bundle datagrams decoded so far
    buffer,         \* the channel's ring: slot index -> [pos, rem, val]
    tail,           \* the channel's tail position: number of items sent
    rx_cnt,         \* live Receiver handles
    tx_cnt,         \* live Sender handles
    log,            \* every string sent on the channel, in order
    task,           \* per connection: "idle", "recv", "send", "done"
    conn,           \* per connection: "none", "open", "peer_gone", "closed"
    next,           \* per connection: the Receiver's cursor
    subscribedAt,   \* per connection: the tail position at subscribe
    held,           \* per connection: the msg being sent, <<>> if none
    received,       \* per connection: the msgs recv returned, in order
    frames,         \* per connection: the text frames sent, in order
    exit,           \* per connection: why the task ended
    profile,        \* the encoder under check: "debug" or "release" build
    message,        \* the encoder under check: the decoded Message
    outcome         \* the encoder under check: how normalizing it ended

vars == <<ingest, ingestErr, warned_bundle, warnings, nMessages, nBundles,
          buffer, tail, rx_cnt, tx_cnt, log,
          task, conn, next, subscribedAt, held, received, frames, exit,
          profile, message, outcome>>

ingestVars == <<ingest, ingestErr, warned_bundle, warnings, nMessages, nBundles>>
busVars == <<buffer, tail, rx_cnt, tx_cnt, log>>
subVars == <<task, conn, next, subscribedAt, held, received, frames, exit>>
encVars == <<profile, message, outcome>>

-----------------------------------------------------------------------------
(* The messages of the run.  The sender numbers its messages, so that every *)
(* published string is distinct and a lost, repeated or reordered item      *)
(* shows.                                                                   *)

OscMessageAt(k) == [addr |-> "/osc", args |-> <<[tag |-> "Int", v |-> k]>>]

-----------------------------------------------------------------------------
(* Unsigned integers wider than the checker's own, as sequences of 16-bit   *)
(* limbs, least significant first, with no leading zero limb: the u32       *)
(* fields of a timetag, the 53-bit significands of f64 and the u64 of       *)
(* epochTimeMs.                                                             *)

\* One limb holds 0 .. Limb - 1.
LimbBits == 16
Limb == 2 ^ LimbBits

\* Widths: u32, and the significand of an f64.
U32Bits == 32
F64Mantissa == 53

RECURSIVE Trim(_)
Trim(a) ==
    IF a = <<>> THEN <<>>
    ELSE IF a[Len(a)] = 0 THEN Trim(SubSeq(a, 1, Len(a) - 1))
    ELSE a

At(a, i) == IF i <= Len(a) THEN a[i] ELSE 0
Rest(a) == IF a = <<>> THEN <<>> ELSE Tail(a)

RECURSIVE AddCarry(_, _, _)
AddCarry(a, b, c) ==
    IF a = <<>> /\ b = <<>> THEN (IF c = 0 THEN <<>> ELSE <<c>>)
    ELSE LET t == At(a, 1) + At(b, 1) + c
         IN  <<t % Limb>> \o AddCarry(Rest(a), Rest(b), t \div Limb)

AddNat(a, b) == AddCarry(a, b, 0)

\* a * n for n < 2^15
RECURSIVE MulCarry(_, _, _)
MulCarry(a, n, c) ==
    IF a = <<>> THEN (IF c = 0 THEN <<>> ELSE <<c>>)
    ELSE LET t == a[1] * n + c
         IN  <<t % Limb>> \o MulCarry(Tail(a), n, t \div Limb)

MulNat(a, n) == Trim(MulCarry(a, n, 0))

RECURSIVE LessFrom(_, _, _)
LessFrom(a, b, i) ==
    IF i = 0 THEN FALSE
    ELSE IF a[i] # b[i] THEN a[i] < b[i]
    ELSE LessFrom(a, b, i - 1)

LessNat(a, b) ==
    IF Len(a) # Len(b) THEN Len(a) < Len(b) ELSE LessFrom(a, b, Len(a))

\* a - b for a >= b
RECURSIVE SubBorrow(_, _, _)
SubBorrow(a, b, c) ==
    IF a = <<>> THEN <<>>
    ELSE LET d == a[1] - At(b, 1) - c
         IN  <<d % Limb>> \o SubBorrow(Tail(a), Rest(b), IF d < 0 THEN 1 ELSE 0)

SubNat(a, b) == Trim(SubBorrow(a, b, 0))

\* A number written in groups of three decimal digits: U(<<2, 208>>) = 2208.
RECURSIVE U(_)
U(groups) ==
    IF groups = <<>> THEN <<>>
    ELSE AddNat(MulNat(U(SubSeq(groups, 1, Len(groups) - 1)), 1000),
                Trim(<<groups[Len(groups)]>>))

\* Quotient and remainder by ten, from the most significant limb down.
RECURSIVE DivTenFrom(_, _, _, _)
DivTenFrom(a, i, r, q) ==
    IF i = 0 THEN <<Trim(q), r>>
    ELSE LET t == r * Limb + a[i]
         IN  DivTenFrom(a, i - 1, t % 10, <<t \div 10>> \o q)

RECURSIVE Digits(_)
Digits(a) ==
    IF a = <<>> THEN ""
    ELSE LET d == DivTenFrom(a, Len(a), 0, <<>>)
         IN  Digits(d[1]) \o ToString(d[2])

\* The decimal text of an unsigned integer (itoa).
DecText(a) == IF a = <<>> THEN "0" ELSE Digits(a)

\* Number of significant bits.
RECURSIVE BitLenInt(_)
BitLenInt(x) == IF x = 0 THEN 0 ELSE 1 + BitLenInt(x \div 2)
BitLen(a) == IF a = <<>> THEN 0 ELSE LimbBits * (Len(a) - 1) + BitLenInt(a[Len(a)])

\* Bit i of a, the least significant being bit 1.
Bit(a, i) == (At(a, (i - 1) \div LimbBits + 1) \div 2 ^ ((i - 1) % LimbBits)) % 2

\* a * 2^k and floor(a / 2^k)
ShiftLeft(a, k) ==
    IF a = <<>> THEN <<>>
    ELSE [i \in 1 .. (k \div LimbBits) |-> 0] \o MulNat(a, 2 ^ (k % LimbBits))

ShiftRight(a, k) ==
    LET w == k \div LimbBits
        r == k % LimbBits
    IN  Trim([i \in 1 .. (Len(a) - w) |->
                 At(a, i + w) \div 2 ^ r
                     + (At(a, i + w + 1) % 2 ^ r) * 2 ^ (LimbBits - r)])

\* u32 - u32 of a release build: wrapping_sub.
WrappingSub(a, b) ==
    IF LessNat(a, b)
    THEN SubNat(AddNat(a, ShiftLeft(<<1>>, U32Bits)), b)
    ELSE SubNat(a, b)

\* The result of an f64 operation: the exact value rounded to 53
\* significant bits, ties to even.
RoundF64(a) ==
    IF BitLen(a) <= F64Mantissa THEN a
    ELSE LET d == BitLen(a) - F64Mantissa
             q == ShiftRight(a, d)
             sticky == \E i \in 1 .. (d - 1) : Bit(a, i) = 1
             up == Bit(a, d) = 1 /\ (sticky \/ Bit(q, 1) = 1)
         IN  ShiftLeft(IF up THEN AddNat(q, <<1>>) ELSE q, d)

-----------------------------------------------------------------------------
\* JSON values, as serde_json builds them: a node carries its kind in j.
JInt(n) == [j |-> "int", v |-> n]
JStr(s) == [j |-> "str", v |-> s]
JArr(elems) == [j |-> "arr", v |-> elems]
JObj(fields) == [j |-> "obj", v |-> fields]
JBool(b) == [j |-> "bool", v |-> b]
JNull == [j |-> "null", v |-> <<>>]
JNat(n) == [j |-> "nat", v |-> n]

\* An f32 or f64 of the run is a class, "finite", "nan", "inf" or "-inf",
\* and for a finite one its value in halves.  serde_json writes null for a
\* value that is not finite.
JFloat(x) == IF x.class = "finite" THEN [j |-> "float", v |-> x.half] ELSE JNull

\* The shortest text that reads back as the float (ryu): 1.5, 1.0, -0.5.
FloatText(half) ==
    LET m == IF half < 0 THEN 0 - half ELSE half
    IN  (IF half < 0 THEN "-" ELSE "") \o ToString(m \div 2)
            \o (IF m % 2 = 0 THEN ".0" ELSE ".5")

\* serde_json::to_string: the compact text of a JSON value, an object's
\* fields in the order they were serialized.  (The strings of the run hold
\* nothing to escape.)
RECURSIVE to_string(_)
RECURSIVE JoinValues(_)
RECURSIVE JoinFields(_)
JoinValues(elems) ==
    IF elems = <<>> THEN ""
    ELSE IF Len(elems) = 1 THEN to_string(elems[1])
    ELSE to_string(elems[1]) \o "," \o JoinValues(Tail(elems))

JoinFields(fields) ==
    IF fields = <<>> THEN ""
    ELSE LET f == "\"" \o fields[1][1] \o "\":" \o to_string(fields[1][2])
         IN  IF Len(fields) = 1 THEN f ELSE f \o "," \o JoinFields(Tail(fields))

to_string(w) ==
    CASE w.j = "int" -> ToString(w.v)
      [] w.j = "str" -> "\"" \o w.v \o "\""
      [] w.j = "arr" -> "[" \o JoinValues(w.v) \o "]"
      [] w.j = "obj" -> "{" \o JoinFields(w.v) \o "}"
      [] w.j = "bool" -> IF w.v THEN "true" ELSE "false"
      [] w.j = "null" -> "null"
      [] w.j = "nat" -> DecText(w.v)
      [] w.j = "float" -> FloatText(w.v)

\* OscTypeWrapper::new
RECURSIVE OscTypeWrapperNew(_)
OscTypeWrapperNew(osc_type) ==
    CASE osc_type.tag = "Color" ->
            [tag |-> "Color",
             v |-> [r |-> osc_type.v.red, g |-> osc_type.v.green,
                    b |-> osc_type.v.blue, a |-> osc_type.v.alpha]]
      [] osc_type.tag = "Midi" ->
            [tag |-> "Midi",
             v |-> <<osc_type.v.port, osc_type.v.status,
                     osc_type.v.data1, osc_type.v.data2>>]
      [] osc_type.tag = "Array" ->
            [tag |-> "Array",
             v |-> [i \in DOMAIN osc_type.v |-> OscTypeWrapperNew(osc_type.v[i])]]
      [] OTHER -> osc_type

\* A wrapper that collects the arguments last to first.
OscMessageWrapperNewReversed(osc_msg) ==
    [address |-> osc_msg.addr,
     args |-> [i \in DOMAIN osc_msg.args |->
                  OscTypeWrapperNew(osc_msg.args[Len(osc_msg.args) + 1 - i])]]

\* OscMessageWrapper::new
OscMessageWrapperNew(osc_msg) ==
    [address |-> osc_msg.addr,
     args |-> [i \in DOMAIN osc_msg.args |-> OscTypeWrapperNew(osc_msg.args[i])]]

\* The offset between the NTP and the Unix epoch, 2_208_988_800 seconds.
NtpOffset == U(<<2, 208, 988, 800>>)

\* ((secs_since_1970 + decimals) * 1000.0) as u64, where
\* secs_since_1970 = (secs_since_1900 - 2_208_988_800) as f64 with the
\* subtraction wrapped and decimals = frac_secs as f64 / 2^32.  The f64
\* values are held as integers in units of 2^-32.
EpochTimeMs(secs_since_1900, frac_secs) ==
    LET secs_since_1970 == WrappingSub(secs_since_1900, NtpOffset)
        sum == RoundF64(AddNat(ShiftLeft(secs_since_1970, U32Bits), frac_secs))
        product == RoundF64(MulNat(sum, 1000))
    IN  ShiftRight(product, U32Bits)

\* Envelope of the tagged variants: {"type": letter, "value": value}
Envelope(letter, value) == JObj(<< <<"type", JStr(letter)>>, <<"value", value>> >>)

\* A Vec<u8> is serialized as a sequence of numbers.
Bytes(b) == JArr([i \in DOMAIN b |-> JInt(b[i])])

\* impl Serialize for OscTypeWrapper
RECURSIVE SerializeArg(_)
SerializeArg(a) ==
    CASE a.tag = "Int" -> Envelope("i", JInt(a.v))
      [] a.tag = "Float" -> Envelope("f", JFloat(a.v))
      [] a.tag = "String" -> Envelope("s", JStr(a.v))
      [] a.tag = "Blob" -> Envelope("b", Bytes(a.v))
      [] a.tag = "Time" ->
            JObj(<< <<"rawNTP", JArr(<<JNat(a.v[1]), JNat(a.v[2])>>)>>,
                    <<"epochTimeMs", JNat(EpochTimeMs(a.v[1], a.v[2]))>> >>)
      [] a.tag = "Long" -> Envelope("h", JInt(a.v))
      [] a.tag = "Double" -> Envelope("d", JFloat(a.v))
      [] a.tag = "Char" -> Envelope("c", JStr(a.v))
      [] a.tag = "Color" ->
            Envelope("r", JObj(<< <<"r", JInt(a.v.r)>>, <<"g", JInt(a.v.g)>>,
                                  <<"b", JInt(a.v.b)>>, <<"a", JInt(a.v.a)>> >>))
      [] a.tag = "Midi" -> Envelope("m", Bytes(a.v))
      [] a.tag = "Bool" -> JBool(a.v)
      [] a.tag = "Array" -> JArr([i \in DOMAIN a.v |-> SerializeArg(a.v[i])])
      [] a.tag = "Nil" -> JNull
      [] a.tag = "Inf" -> JFloat([class |-> "finite", half |-> 2])

\* secs_since_1900 - 2_208_988_800 on u32 overflows: some timetag of the
\* argument is before 1970.
RECURSIVE Overflows(_)
Overflows(a) ==
    CASE a.tag = "Time" -> LessNat(a.v[1], NtpOffset)
      [] a.tag = "Array" -> \E i \in DOMAIN a.v : Overflows(a.v[i])
      [] OTHER -> FALSE

\* #[derive(Serialize)] of OscMessageWrapper
SerializeMessage(w) ==
    JObj(<< <<"address", JStr(w.address)>>,
            <<"args", JArr([i \in DOMAIN w.args |-> SerializeArg(w.args[i])])>> >>)

\* serde_json::to_string(&types::OscMessageWrapper::new(osc_msg)).unwrap()
MessageJson(osc_msg) == to_string(SerializeMessage(OscMessageWrapperNew(osc_msg)))

\* The same call with its ways to end: a build with overflow checks panics
\* in the subtraction, a build without them wraps it.
NoMessage == [addr |-> "", args |-> <<>>]
NoOutcome == [done |-> FALSE, ok |-> FALSE, wrapped |-> FALSE, text |-> "", value |-> JNull]
NormalizeOutcome(osc_msg, build) ==
    LET w == OscMessageWrapperNew(osc_msg)
        over == \E i \in DOMAIN w.args : Overflows(w.args[i])
    IN  IF over /\ build = "debug"
        THEN [done |-> TRUE, ok |-> FALSE, wrapped |-> FALSE, text |-> "", value |-> JNull]
        ELSE [done |-> TRUE, ok |-> TRUE, wrapped |-> over,
              text |-> MessageJson(osc_msg), value |-> SerializeMessage(w)]

\* The strings of the run's messages, computed once.
RunJson == [k \in 0 .. (MaxMessages - 1) |-> MessageJson(OscMessageAt(k))]

-----------------------------------------------------------------------------
(* The arguments the encoder is checked on: every variant of OscType, the   *)
(* floats finite and not, timetags on both sides of 1970, and Arrays nested *)
(* MaxDepth deep.                                                           *)

MaxDepth == 3

Arg(tag, v) == [tag |-> tag, v |-> v]
Finite(half) == [class |-> "finite", half |-> half]
NotFinite(class) == [class |-> class, half |-> 0]

MaxU32 == U(<<4, 294, 967, 295>>)
Timetags ==
    << <<NtpOffset, <<>>>>,
       <<U(<<2, 208, 988, 801>>), U(<<2, 147, 483, 648>>)>>,
       <<U(<<2, 208, 988, 801>>), MaxU32>>,
       <<U(<<2, 208, 988, 799>>), <<>>>>,
       <<<<>>, <<1>>>>,
       <<MaxU32, MaxU32>> >>

RECURSIVE Nest(_, _)
Nest(a, d) == IF d = 0 THEN a ELSE Arg("Array", <<Nest(a, d - 1)>>)

ArgDomain ==
    << Arg("Int", 5), Arg("Int", 0), Arg("Int", 0 - 1),
       Arg("Float", Finite(3)), Arg("Float", Finite(2)), Arg("Float", Finite(0 - 1)),
       Arg("Float", NotFinite("nan")), Arg("Float", NotFinite("inf")),
       Arg("Float", NotFinite("-inf")),
       Arg("String", "a"), Arg("String", ""),
       Arg("Blob", <<>>), Arg("Blob", <<1, 2, 3, 4>>),
       Arg("Long", 5), Arg("Long", 0 - 1),
       Arg("Double", Finite(3)), Arg("Double", Finite(2)),
       Arg("Double", NotFinite("nan")), Arg("Double", NotFinite("inf")),
       Arg("Char", "a"),
       Arg("Color", [red |-> 1, green |-> 2, blue |-> 3, alpha |-> 4]),
       Arg("Color", [red |-> 4, green |-> 3, blue |-> 2, alpha |-> 1]),
       Arg("Midi", [port |-> 1, status |-> 2, data1 |-> 3, data2 |-> 4]),
       Arg("Bool", TRUE), Arg("Bool", FALSE),
       Arg("Nil", <<>>), Arg("Inf", <<>>),
       Arg("Array", <<>>),
       Arg("Array", <<Arg("Float", Finite(3)), Arg("Nil", <<>>)>>),
       Arg("Array", <<Arg("Nil", <<>>), Arg("Float", Finite(3))>>) >>
    \o [i \in DOMAIN Timetags |-> Arg("Time", Timetags[i])]
    \o [d \in 1 .. MaxDepth |-> Nest(Arg("Nil", <<>>), d)]
    \o [d \in 1 .. MaxDepth |-> Nest(Arg("Inf", <<>>), d)]
    \o [d \in 1 .. MaxDepth |-> Nest(Arg("Time", Timetags[5]), d)]

\* The Message of the wire format's example.
ExampleMessage ==
    [addr |-> "/x",
     args |-> <<Arg("Int", 5), Arg("Bool", TRUE),
                Arg("Array", <<Arg("Float", Finite(3)), Arg("Nil", <<>>)>>)>>]

-----------------------------------------------------------------------------
(* tokio::sync::broadcast *)

Slots == 0 .. (Capacity - 1)

\* broadcast::channel: every slot empty, its pos one lap behind its index.
NewBuffer == [i \in Slots |-> [pos |-> i - Capacity, rem |-> 0, val |-> <<>>]]

\* The channel is closed once every Sender is dropped.
Closed == tx_cnt = 0

\* A send that waits, as on a bounded queue, until no receiver would lose an
\* item it has not read.
SendWaitsForReceivers ==
    \A c \in Conns : task[c] \in {"recv", "send"} => tail - next[c] < Capacity

\* Sender::send never waits: it is not async.
SendReady == TRUE

\* A send that keeps what a full ring holds and loses the new value.
SendSlotKeepsOldest(buf, pos, rx, value) ==
    IF buf[pos % Capacity].val # <<>>
    THEN buf
    ELSE [buf EXCEPT ![pos % Capacity] = [pos |-> pos, rem |-> rx, val |-> <<value>>]]

\* Sender::send on a channel with a receiver: write the slot at the tail, to be
\* seen by the receivers alive now.
SendSlot(buf, pos, rx, value) ==
    [buf EXCEPT ![pos % Capacity] = [pos |-> pos, rem |-> rx, val |-> <<value>>]]

\* A release that frees the value with the first receiver to see it.
ReleaseAtFirst(buf, idx) ==
    [buf EXCEPT ![idx] = [pos |-> @.pos, rem |-> @.rem - 1, val |-> <<>>]]

\* One receiver has seen the slot at idx: the value is released with the last.
Release(buf, idx) ==
    [buf EXCEPT ![idx] =
        [pos |-> @.pos,
         rem |-> @.rem - 1,
         val |-> IF @.rem - 1 = 0 THEN <<>> ELSE @.val]]

\* A recv that leaves the cursor where it was after a value.
RecvRefStaysPut(buf, tl, closed, nxt) ==
    LET slot == buf[nxt % Capacity]
    IN  IF slot.pos = nxt
        THEN [kind |-> "Ok", val |-> slot.val, next |-> nxt, missed |-> 0]
        ELSE IF slot.pos + Capacity = nxt
        THEN [kind |-> IF closed THEN "Closed" ELSE "Empty",
              val |-> <<>>, next |-> nxt, missed |-> 0]
        ELSE [kind |-> "Lagged", val |-> <<>>, next |-> tl - Capacity,
              missed |-> tl - Capacity - nxt]

\* Receiver::recv at cursor nxt: the outcome and the cursor after it.
\*   Ok      the slot holds position nxt: the value, cursor + 1
\*   Empty   nothing sent at nxt yet: the receiver waits
\*   Closed  nothing sent at nxt and no Sender left
\*   Lagged  position nxt was overwritten: the cursor moves to the oldest
\*           retained position, and the call reports how many were missed
RecvRef(buf, tl, closed, nxt) ==
    LET idx == nxt % Capacity
        slot == buf[idx]
        oldest == tl - Capacity
    IN  IF slot.pos = nxt
        THEN [kind |-> "Ok", val |-> slot.val, next |-> nxt + 1, missed |-> 0]
        ELSE IF slot.pos + Capacity = nxt
        THEN [kind |-> IF closed THEN "Closed" ELSE "Empty",
              val |-> <<>>, next |-> nxt, missed |-> 0]
        ELSE [kind |-> "Lagged", val |-> <<>>, next |-> oldest,
              missed |-> oldest - nxt]

\* A subscribe that replays what the ring retains.
SubscribeAtOldest(buf, tl) == IF tl > Capacity THEN tl - Capacity ELSE 0

\* Sender::subscribe: the new Receiver's cursor.
SubscribePos(buf, tl) == tl

\* Drop for Receiver: the receiver counts as having seen every retained item
\* between its cursor and the tail.
RECURSIVE DrainFrom(_, _, _)
DrainFrom(buf, nxt, until) ==
    IF nxt >= until THEN buf
    ELSE IF buf[nxt % Capacity].pos = nxt
         THEN DrainFrom(Release(buf, nxt % Capacity), nxt + 1, until)
         ELSE DrainFrom(buf, IF until - Capacity > nxt + 1
                             THEN until - Capacity ELSE nxt + 1, until)

-----------------------------------------------------------------------------
\* A start that drops the Receiver broadcast::channel returns.
InitWithoutReceiver ==
    /\ ingest = "listening"
    /\ ingestErr = "none"
    /\ warned_bundle = FALSE
    /\ warnings = 0
    /\ nMessages = 0
    /\ nBundles = 0
    /\ buffer = NewBuffer
    /\ tail = 0
    /\ rx_cnt = 0
    /\ tx_cnt = 2
    /\ log = <<>>
    /\ task = [c \in Conns |-> "idle"]
    /\ conn = [c \in Conns |-> "none"]
    /\ next = [c \in Conns |-> 0]
    /\ subscribedAt = [c \in Conns |-> 0]
    /\ held = [c \in Conns |-> <<>>]
    /\ received = [c \in Conns |-> <<>>]
    /\ frames = [c \in Conns |-> <<>>]
    /\ exit = [c \in Conns |-> "none"]
    /\ profile = "release"
    /\ message = NoMessage
    /\ outcome = NoOutcome

\* An ingest task whose end takes the channel's other Sender with it.
IngestPanicsDropsAll ==
    /\ ingest' = "panicked"
    /\ tx_cnt' = tx_cnt - 2

\* The pipeline after main has set it up.
PipelineStart ==
    /\ ingest = "listening"
    /\ ingestErr = "none"
    /\ warned_bundle = FALSE
    /\ warnings = 0
    /\ nMessages = 0
    /\ nBundles = 0
    /\ buffer = NewBuffer
    /\ tail = 0
    /\ rx_cnt = 1                \* osc_rx, kept by main
    /\ tx_cnt = 2                \* osc_tx and osc_tx_for_subscribing
    /\ log = <<>>
    /\ task = [c \in Conns |-> "idle"]
    /\ conn = [c \in Conns |-> "none"]
    /\ next = [c \in Conns |-> 0]
    /\ subscribedAt = [c \in Conns |-> 0]
    /\ held = [c \in Conns |-> <<>>]
    /\ received = [c \in Conns |-> <<>>]
    /\ frames = [c \in Conns |-> <<>>]
    /\ exit = [c \in Conns |-> "none"]

\* The pipeline's run: its datagrams carry Int arguments only, which every
\* build encodes alike (RunJson).
Init ==
    /\ PipelineStart
    /\ profile = "release"
    /\ message = NoMessage
    /\ outcome = NoOutcome

-----------------------------------------------------------------------------
(* The Ingest Loop *)

\* The task's future is dropped: its osc_tx goes with it.
IngestPanics ==
    /\ ingest' = "panicked"
    /\ tx_cnt' = tx_cnt - 1

\* OscPacket::Message: normalize, serialize, send; send(..).unwrap() panics
\* when the channel has no receiver.
IngestMessage ==
    /\ ingest = "listening"
    /\ nMessages < MaxMessages
    /\ SendReady
    /\ nMessages' = nMessages + 1
    /\ LET json_string == RunJson[nMessages]
       IN  IF rx_cnt = 0
           THEN /\ IngestPanics
                /\ UNCHANGED <<buffer, tail, log>>
           ELSE /\ buffer' = SendSlot(buffer, tail, rx_cnt, json_string)
                /\ tail' = tail + 1
                /\ log' = Append(log, json_string)
                /\ UNCHANGED <<ingest, tx_cnt>>
    /\ UNCHANGED <<ingestErr, warned_bundle, warnings, nBundles, rx_cnt>>
    /\ UNCHANGED subVars
    /\ UNCHANGED encVars

\* A Bundle arm without the gate: it warns every time.
IngestBundleWarnsAlways ==
    /\ ingest = "listening"
    /\ nBundles < MaxBundles
    /\ nBundles' = nBundles + 1
    /\ warnings' = warnings + 1
    /\ warned_bundle' = TRUE
    /\ UNCHANGED <<ingest, ingestErr, nMessages>>
    /\ UNCHANGED busVars
    /\ UNCHANGED subVars
    /\ UNCHANGED encVars

\* OscPacket::Bundle: warn once, drop.
IngestBundle ==
    /\ ingest = "listening"
    /\ nBundles < MaxBundles
    /\ nBundles' = nBundles + 1
    /\ IF ~warned_bundle
       THEN /\ warnings' = warnings + 1
            /\ warned_bundle' = TRUE
       ELSE UNCHANGED <<warnings, warned_bundle>>
    /\ UNCHANGED <<ingest, ingestErr, nMessages>>
    /\ UNCHANGED busVars
    /\ UNCHANGED subVars
    /\ UNCHANGED encVars

\* The stream yields Err for a datagram that does not decode:
\* osc_packet.unwrap() panics.
IngestError ==
    /\ ingest = "listening"
    /\ ingestErr' = "decode"
    /\ IngestPanics
    /\ UNCHANGED <<warned_bundle, warnings, nMessages, nBundles>>
    /\ UNCHANGED <<buffer, tail, rx_cnt, log>>
    /\ UNCHANGED subVars
    /\ UNCHANGED encVars

-----------------------------------------------------------------------------
(* The Subscriber Task of connection c *)

\* ws.on_upgrade: the filter's clone of the Sender moves into the task, which
\* subscribes.  Clients connect while at most MaxSubscribePos items have been
\* published, in the order of their names.
Upgrade(c) ==
    /\ task[c] = "idle"
    /\ \A d \in AcceptedBefore(c) : task[d] # "idle"
    /\ tail <= MaxSubscribePos
    /\ task' = [task EXCEPT ![c] = "recv"]
    /\ conn' = [conn EXCEPT ![c] = "open"]
    /\ next' = [next EXCEPT ![c] = SubscribePos(buffer, tail)]
    /\ subscribedAt' = [subscribedAt EXCEPT ![c] = tail]
    /\ rx_cnt' = rx_cnt + 1
    /\ tx_cnt' = tx_cnt + 1
    /\ UNCHANGED <<buffer, tail, log, held, received, frames, exit>>
    /\ UNCHANGED ingestVars
    /\ UNCHANGED encVars

\* The task's async block ends: its Receiver, its Sender and the websocket are
\* dropped.
TaskEnds(c, why, nxt) ==
    /\ task' = [task EXCEPT ![c] = "done"]
    /\ conn' = [conn EXCEPT ![c] = "closed"]
    /\ exit' = [exit EXCEPT ![c] = why]
    /\ next' = [next EXCEPT ![c] = nxt]
    /\ held' = [held EXCEPT ![c] = <<>>]
    /\ buffer' = DrainFrom(buffer, nxt, tail)
    /\ rx_cnt' = rx_cnt - 1
    /\ tx_cnt' = tx_cnt - 1

\* osc_rx.recv().await => Ok(msg)
RecvOk(c) ==
    /\ task[c] = "recv"
    /\ LET r == RecvRef(buffer, tail, Closed, next[c])
       IN  /\ r.kind = "Ok"
           /\ held' = [held EXCEPT ![c] = r.val]
           /\ received' = [received EXCEPT ![c] = @ \o r.val]
           /\ next' = [next EXCEPT ![c] = r.next]
           /\ buffer' = Release(buffer, next[c] % Capacity)
    /\ task' = [task EXCEPT ![c] = "send"]
    /\ UNCHANGED <<tail, rx_cnt, tx_cnt, log, conn, subscribedAt, frames, exit>>
    /\ UNCHANGED ingestVars
    /\ UNCHANGED encVars

\* osc_rx.recv().await => Err(e): Lagged or Closed; the loop breaks.
RecvErr(c) ==
    /\ task[c] = "recv"
    /\ LET r == RecvRef(buffer, tail, Closed, next[c])
       IN  /\ r.kind \in {"Lagged", "Closed"}
           /\ TaskEnds(c, r.kind, r.next)
    /\ UNCHANGED <<tail, log, subscribedAt, received, frames>>
    /\ UNCHANGED ingestVars
    /\ UNCHANGED encVars

\* A forward that writes the frame twice.
SendOkTwice(c) ==
    /\ task[c] = "send"
    /\ conn[c] = "open"
    /\ frames' = [frames EXCEPT ![c] = Append(Append(@, held[c][1]), held[c][1])]
    /\ held' = [held EXCEPT ![c] = <<>>]
    /\ task' = [task EXCEPT ![c] = "recv"]
    /\ UNCHANGED <<conn, next, subscribedAt, received, exit>>
    /\ UNCHANGED busVars
    /\ UNCHANGED ingestVars
    /\ UNCHANGED encVars

\* websocket.send(..).await => Ok
SendOk(c) ==
    /\ task[c] = "send"
    /\ conn[c] = "open"
    /\ frames' = [frames EXCEPT ![c] = Append(@, held[c][1])]
    /\ held' = [held EXCEPT ![c] = <<>>]
    /\ task' = [task EXCEPT ![c] = "recv"]
    /\ UNCHANGED <<conn, next, subscribedAt, received, exit>>
    /\ UNCHANGED busVars
    /\ UNCHANGED ingestVars
    /\ UNCHANGED encVars

\* A failed send that drops the message and goes on with the loop.
SendErrContinues(c) ==
    /\ task[c] = "send"
    /\ conn[c] = "peer_gone"
    /\ held' = [held EXCEPT ![c] = <<>>]
    /\ task' = [task EXCEPT ![c] = "recv"]
    /\ UNCHANGED <<conn, next, subscribedAt, received, frames, exit>>
    /\ UNCHANGED busVars
    /\ UNCHANGED ingestVars
    /\ UNCHANGED encVars

\* websocket.send(..).await => Err: close, break.
SendErr(c) ==
    /\ task[c] = "send"
    /\ conn[c] = "peer_gone"
    /\ TaskEnds(c, "SendError", next[c])
    /\ UNCHANGED <<tail, log, subscribedAt, received, frames>>
    /\ UNCHANGED ingestVars
    /\ UNCHANGED encVars

\* The peer disconnects.
PeerDisconnect(c) ==
    /\ task[c] \in {"recv", "send"}
    /\ conn[c] = "open"
    /\ conn' = [conn EXCEPT ![c] = "peer_gone"]
    /\ UNCHANGED <<task, next, subscribedAt, held, received, frames, exit>>
    /\ UNCHANGED busVars
    /\ UNCHANGED ingestVars
    /\ UNCHANGED encVars

SubscriberStep(c) == RecvOk(c) \/ RecvErr(c) \/ SendOk(c) \/ SendErr(c)

-----------------------------------------------------------------------------
Next ==
    \/ IngestMessage
    \/ IngestBundle
    \/ IngestError
    \/ \E c \in Conns : Upgrade(c)
    \/ \E c \in Conns : RecvOk(c)
    \/ \E c \in Conns : RecvErr(c)
    \/ \E c \in Conns : SendOk(c)
    \/ \E c \in Conns : SendErr(c)
    \/ \E c \in Conns : PeerDisconnect(c)

Spec == Init /\ [][Next]_vars

\* The runtime polls a task that can run.
FairSpec == Spec /\ \A c \in Conns : WF_vars(SubscriberStep(c))

\* The encoder on its own: a decoded Message of any two arguments, or the
\* example, normalized once by either build.
EncInit ==
    /\ PipelineStart
    /\ profile \in {"debug", "release"}
    /\ \/ \E i, k \in DOMAIN ArgDomain :
              message = [addr |-> "/osc", args |-> <<ArgDomain[i], ArgDomain[k]>>]
       \/ message = ExampleMessage
    /\ outcome = NoOutcome

\* serde_json::to_string(&types::OscMessageWrapper::new(osc_msg))
Normalize ==
    /\ ~outcome.done
    /\ outcome' = NormalizeOutcome(message, profile)
    /\ UNCHANGED <<profile, message>>
    /\ UNCHANGED ingestVars
    /\ UNCHANGED busVars
    /\ UNCHANGED subVars

EncNext == Normalize

SpecEnc == EncInit /\ [][EncNext]_vars

-----------------------------------------------------------------------------
(* Properties *)

Active(c) == task[c] \in {"recv", "send"}

\* What a recv of connection c would return now.
RecvOutcome(c) ==
    LET r == RecvRef(buffer, tail, Closed, next[c])
    IN  <<r.kind, r.val, r.next>>

\* The ring as a receiver sees it: positions and values.
Contents(buf) == [i \in Slots |-> <<buf[i].pos, buf[i].val>>]

\* The positions whose value the ring holds.
RetainedPositions == {buffer[i].pos : i \in {j \in Slots : buffer[j].val # <<>>}}

Max(a, b) == IF a > b THEN a ELSE b

IsPrefix(s, t) == Len(s) <= Len(t) /\ s = SubSeq(t, 1, Len(s))

-----------------------------------------------------------------------------
\* C1: a subscriber that fell behind the retention window gets a lag
\* indication on its next receive and is not terminated by it: no Subscriber
\* Task ever ends because recv reported Lagged.
C1_LagTolerated == \A c \in Conns : exit[c] # "Lagged"

\* C2: a decode failure is never fatal: after a datagram failed to decode the
\* Ingest Loop is listening again.
C2_DecodeFailureNotFatal == ingestErr = "decode" => ingest = "listening"

\* C3: a subscriber that subscribed before the first publish and was never
\* told it lagged has received exactly the first items of the published
\* sequence, each once and in publish order, up to its cursor, and has
\* forwarded them in that order.
C3_OrderingNoLag ==
    \A c \in Conns :
        (task[c] # "idle" /\ subscribedAt[c] = 0 /\ exit[c] # "Lagged") =>
            /\ received[c] = SubSeq(log, 1, next[c])
            /\ IsPrefix(frames[c], received[c])
            /\ Len(received[c]) <= Len(frames[c]) + 1

\* C3 happens: a subscriber that joined at the start has forwarded the whole
\* published sequence, which is longer than the ring.
C3_Witness ==
    \E c \in Conns :
        /\ subscribedAt[c] = 0 /\ Active(c)
        /\ Len(log) > Capacity
        /\ frames[c] = log

\* C4, the producer: whenever the Ingest Loop is listening (and the run has a
\* Message datagram left) its publish step is enabled, whatever the
\* subscribers' states.
PublishEnabled ==
    (ingest = "listening" /\ nMessages < MaxMessages) => ENABLED IngestMessage

\* C4, one step: a publish puts one item on the bus and leaves the loop
\* listening.
PublishCompletes ==
    IngestMessage => (tail' = tail + 1 /\ ingest' = "listening")

\* C4, the readers: a step of one Subscriber Task changes nothing of what
\* another subscriber's receive returns.
ReadersIndependent ==
    \A c, d \in Conns :
        (c # d /\ SubscriberStep(d) /\ task[c] = "recv") =>
            RecvOutcome(c)' = RecvOutcome(c)

\* C4: the producer never blocks, and no reader blocks another.
C4_ProducerNeverBlocks ==
    /\ []PublishEnabled
    /\ [][PublishCompletes]_vars
    /\ [][ReadersIndependent]_vars

\* C4 happens: the loop can publish while the ring is full of items one
\* subscriber has not read and another subscriber is suspended in a send.
C4_Witness ==
    \E c, d \in Conns :
        /\ c # d
        /\ task[c] = "recv" /\ tail - next[c] >= Capacity
        /\ task[d] = "send"
        /\ ingest = "listening" /\ nMessages < MaxMessages

\* C5: when a Subscriber Task terminates, the ring's contents and tail, every
\* other subscriber's task, cursor, received items and next receive, and the
\* Ingest Loop's ability to publish are unchanged.
SubscriberIsolation ==
    \A c \in Conns :
        (task[c] # "done" /\ task'[c] = "done") =>
            /\ Contents(buffer') = Contents(buffer)
            /\ tail' = tail
            /\ log' = log
            /\ \A d \in Conns \ {c} :
                /\ task'[d] = task[d]
                /\ next'[d] = next[d]
                /\ received'[d] = received[d]
                /\ frames'[d] = frames[d]
                /\ RecvOutcome(d)' = RecvOutcome(d)
            /\ ingest' = ingest
            /\ rx_cnt' >= 1
            /\ ~Closed'
            /\ SendReady'

C5_SubscriberIsolation == [][SubscriberIsolation]_vars

\* C5 happens: one task ended on a failed send with items left unread, and the
\* other subscriber has gone on to receive what was published.
C5_Witness ==
    \E c, d \in Conns :
        /\ exit[c] = "SendError" /\ next[c] < tail
        /\ Active(d) /\ next[d] = tail /\ next[d] > next[c]

\* C6: once the producer is gone, a receive that has nothing retained left to
\* deliver returns the closed signal.
C6_TeardownClosesReceives ==
    \A c \in Conns :
        (ingest = "panicked" /\ task[c] = "recv" /\ next[c] = tail) =>
            RecvOutcome(c)[1] = "Closed"

\* C7: the first Bundle produces exactly one warning, later Bundles none, and
\* only Message datagrams put items on the bus.
C7_BundleHandling ==
    /\ warnings = (IF nBundles > 0 THEN 1 ELSE 0)
    /\ tail = nMessages
    /\ Len(log) = nMessages

\* C7 happens: a second Bundle after the first warning, Messages around them.
C7_Witness == nBundles >= 2 /\ warnings = 1 /\ nMessages >= 1

\* C8: a subscriber receives only items published after its subscribe step,
\* the first of them being the first one published after it.
C8_SubscribeAtNow ==
    \A c \in Conns :
        /\ \A i \in DOMAIN received[c] :
              \E j \in (subscribedAt[c] + 1) .. Len(log) : received[c][i] = log[j]
        /\ received[c] # <<>> => received[c][1] = log[subscribedAt[c] + 1]

\* C8 happens: a client subscribed while an earlier item was retained, and
\* has received since.
C8_Witness ==
    \E c \in Conns :
        /\ subscribedAt[c] >= 1
        /\ (subscribedAt[c] - 1) \in RetainedPositions
        /\ received[c] # <<>>

\* C9: once the peer has disconnected, the connection's Subscriber Task
\* eventually terminates.
C9_TaskEndsAfterDisconnect ==
    \A c \in Conns : (conn[c] = "peer_gone") ~> (task[c] = "done")

\* C10: the ring holds at most Capacity items, every publish succeeds, and
\* the items held are the most recent min(Capacity, number published), each
\* at its own position.
C10_BoundedLossyBuffer ==
    /\ Cardinality(RetainedPositions) <= Capacity
    /\ Len(log) = nMessages
    /\ RetainedPositions = Max(0, Len(log) - Capacity) .. (Len(log) - 1)
    /\ \A p \in RetainedPositions :
          buffer[p % Capacity] .val = <<log[p + 1]>>

\* C10 happens: a publish onto a full ring evicted the oldest item.
C10_Witness ==
    /\ Len(log) > Capacity
    /\ 0 \notin RetainedPositions
    /\ Cardinality(RetainedPositions) = Capacity

\* The encoded form of the i-th argument of the Message under check.
ArgWire(i) == outcome.value.v[2][2].v[i]

\* C11: the encoder is total: for every Arg, a timetag before 1970 such as
\* the 'immediate' timetag (0, 1) included, normalizing produces a wire
\* value, and it neither aborts nor underflows secs - 2208988800.
C11_EncoderTotal == outcome.done => (outcome.ok /\ ~outcome.wrapped)

\* ((secs - 2208988800) + frac / 2^32) * 1000 in exact arithmetic, truncated;
\* a negative value has no unsigned truncation and is taken as 0.
ExactEpochMs(secs, frac) ==
    IF LessNat(secs, NtpOffset) THEN <<>>
    ELSE ShiftRight(MulNat(AddNat(ShiftLeft(SubNat(secs, NtpOffset), U32Bits), frac),
                           1000),
                    U32Bits)

\* C12: Timestamp(secs, frac) encodes to {rawNTP: [secs, frac], epochTimeMs}
\* with epochTimeMs = ((secs - 2208988800) + frac / 2^32) * 1000 truncated to
\* an unsigned integer.
C12_TimestampConversion ==
    outcome.done =>
        \A i \in DOMAIN message.args :
            message.args[i].tag = "Time" =>
                /\ outcome.ok
                /\ ArgWire(i) =
                      JObj(<< <<"rawNTP", JArr(<<JNat(message.args[i].v[1]),
                                                 JNat(message.args[i].v[2])>>)>>,
                              <<"epochTimeMs",
                                JNat(ExactEpochMs(message.args[i].v[1],
                                                  message.args[i].v[2]))>> >>)

\* The wire format's tag letters and values of the enveloped variants.
TypeLetter(tag) ==
    CASE tag = "Int" -> "i" [] tag = "Float" -> "f" [] tag = "String" -> "s"
      [] tag = "Blob" -> "b" [] tag = "Long" -> "h" [] tag = "Double" -> "d"
      [] tag = "Char" -> "c" [] tag = "Color" -> "r" [] tag = "Midi" -> "m"

Enveloped == {"Int", "Float", "String", "Blob", "Long", "Double", "Char", "Color", "Midi"}

ValueText(a) ==
    CASE a.tag \in {"Int", "Long"} -> ToString(a.v)
      [] a.tag \in {"String", "Char"} -> "\"" \o a.v \o "\""
      [] a.tag \in {"Float", "Double"} ->
            IF a.v.class = "finite" THEN FloatText(a.v.half) ELSE "null"
      [] a.tag = "Blob" ->
            IF a.v = <<>> THEN "[]" ELSE "[1,2,3,4]"
      [] a.tag = "Color" ->
            "{\"r\":" \o ToString(a.v.red) \o ",\"g\":" \o ToString(a.v.green)
                \o ",\"b\":" \o ToString(a.v.blue) \o ",\"a\":" \o ToString(a.v.alpha) \o "}"
      [] a.tag = "Midi" ->
            "[" \o ToString(a.v.port) \o "," \o ToString(a.v.status) \o ","
                \o ToString(a.v.data1) \o "," \o ToString(a.v.data2) \o "]"

RECURSIVE ShapeOk(_, _)
ShapeOk(a, w) ==
    CASE a.tag \in Enveloped ->
            /\ w.j = "obj"
            /\ Len(w.v) = 2
            /\ w.v[1][1] = "type"
            /\ w.v[1][2].j = "str"
            /\ w.v[1][2].v = TypeLetter(a.tag)
            /\ w.v[2][1] = "value"
            /\ to_string(w.v[2][2]) = ValueText(a)
      [] a.tag = "Bool" -> w.j = "bool" /\ w.v = a.v
      [] a.tag = "Nil" -> w.j = "null"
      [] a.tag = "Inf" -> w.j = "float" /\ to_string(w) = "1.0"
      [] a.tag = "Array" ->
            /\ w.j = "arr"
            /\ Len(w.v) = Len(a.v)
            /\ \A i \in DOMAIN a.v : ShapeOk(a.v[i], w.v[i])
      [] a.tag = "Time" -> TRUE

RECURSIVE HasTime(_)
HasTime(a) ==
    CASE a.tag = "Time" -> TRUE
      [] a.tag = "Array" -> \E i \in DOMAIN a.v : HasTime(a.v[i])
      [] OTHER -> FALSE

ExampleText ==
    "{\"address\":\"/x\",\"args\":[{\"type\":\"i\",\"value\":5},true,[{\"type\":\"f\",\"value\":1.5},null]]}"

\* C13: normalizing Message{address, args} yields {address, args: [...]} with
\* the arguments encoded in order: the nine tagged variants as {type, value}
\* envelopes with the letters i f s b h d c r m, Bool as a bare boolean, Nil
\* as null, Infinitum as the bare number 1.0, an Array as a bare array of its
\* encoded elements at any depth; the example Message gives the example text.
C13_WireShape ==
    outcome.done =>
        /\ (\A i \in DOMAIN message.args : ~HasTime(message.args[i])) => outcome.ok
        /\ outcome.ok =>
              /\ outcome.value.j = "obj"
              /\ Len(outcome.value.v) = 2
              /\ outcome.value.v[1][1] = "address"
              /\ to_string(outcome.value.v[1][2]) = "\"" \o message.addr \o "\""
              /\ outcome.value.v[2][1] = "args"
              /\ outcome.value.v[2][2].j = "arr"
              /\ Len(outcome.value.v[2][2].v) = Len(message.args)
              /\ \A i \in DOMAIN message.args : ShapeOk(message.args[i], ArgWire(i))
              /\ outcome.text = to_string(outcome.value)
              /\ Len(message.args) = 3 => outcome.text = ExampleText

\* C13 happens: the example Message has been normalized.
C13_Witness ==
    /\ outcome.done /\ outcome.ok
    /\ Len(message.args) = 3
    /\ message.args[3].tag = "Array"
    /\ outcome.text = ExampleText

\* C14: the encoder is injective: two distinct Args never encode to the same
\* wire value.
C14_EncoderInjective ==
    (outcome.done /\ outcome.ok /\ Len(message.args) = 2) =>
        (to_string(ArgWire(1)) = to_string(ArgWire(2)) =>
            message.args[1] = message.args[2])

\* C15: after a send to its connection fails, the Subscriber Task closes
\* the connection and terminates at once, forwarding nothing of the failed
\* message; a terminated task receives nothing more and sends no more frame.
SendFailureIsTerminal ==
    \A c \in Conns :
        /\ (task[c] = "send" /\ conn[c] = "peer_gone" /\ task'[c] # "send") =>
              /\ task'[c] = "done"
              /\ conn'[c] = "closed"
              /\ exit'[c] = "SendError"
              /\ frames'[c] = frames[c]
              /\ received'[c] = received[c]
        /\ exit[c] = "SendError" =>
              /\ task'[c] = "done"
              /\ conn'[c] = "closed"
              /\ next'[c] = next[c]
              /\ received'[c] = received[c]
              /\ frames'[c] = frames[c]

C15_SendFailureTerminal == [][SendFailureIsTerminal]_vars

\* C15 happens: a task ended on a failed send after it had forwarded frames,
\* the other subscriber goes on, and items it never read were published.
C15_Witness ==
    \E c, d \in Conns :
        /\ exit[c] = "SendError" /\ frames[c] # <<>>
        /\ Len(received[c]) = Len(frames[c]) + 1
        /\ next[c] < tail
        /\ Active(d) /\ Len(frames[d]) > Len(frames[c]) + 1

\* The place of a published string in the log (the strings are distinct).
PosInLog(item) == CHOOSE j \in 1 .. Len(log) : log[j] = item

\* C16: the frames a connection was sent are strings published after its
\* subscribe step, in strictly increasing publish position: none twice, none
\* unpublished, none out of order.
C16_FramesSubsequence ==
    \A c \in Conns :
        /\ \A i \in DOMAIN frames[c] :
              /\ \E j \in 1 .. Len(log) : log[j] = frames[c][i]
              /\ PosInLog(frames[c][i]) > subscribedAt[c]
        /\ \A i \in 1 .. (Len(frames[c]) - 1) :
              PosInLog(frames[c][i]) < PosInLog(frames[c][i + 1])

\* C16 happens: one subscriber lagged, and another that joined after the
\* first publish has forwarded frames and is behind the tail.
C16_Witness ==
    \E c, d \in Conns :
        /\ exit[c] = "Lagged"
        /\ subscribedAt[d] >= 1
        /\ Len(frames[d]) >= 2
        /\ tail - next[d] >= 2

\* C17, the handle: main keeps osc_rx, so the channel always has a receiver.
ReceiverKept == rx_cnt >= 1 + Cardinality({c \in Conns : Active(c)})

\* C17, the publish: every publish puts its string on the bus and leaves the
\* loop listening.
PublishSucceeds ==
    IngestMessage => (log' = Append(log, RunJson[nMessages]) /\ ingest' = "listening")

\* C17: publishing never fails for lack of subscribers.
C17_PublishNeverFails ==
    /\ []ReceiverKept
    /\ [](ingest = "panicked" => ingestErr = "decode")
    /\ [][PublishSucceeds]_vars

\* C17 happens: every client has come and gone, only main's receiver is
\* left, and the loop has published the whole run.
C17_Witness ==
    /\ \A c \in Conns : task[c] = "done"
    /\ rx_cnt = 1
    /\ ingest = "listening"
    /\ Len(log) = MaxMessages

\* C18: the end of the Ingest Loop task never closes the bus: no subscriber
\* is ever given the closed signal, and once the loop is gone a subscriber
\* that has read everything waits in recv with no step to take.
C18_IngestEndKeepsBusOpen ==
    /\ ~Closed
    /\ \A c \in Conns :
        /\ exit[c] # "Closed"
        /\ (ingest = "panicked" /\ task[c] = "recv" /\ next[c] = tail) =>
              /\ RecvOutcome(c)[1] = "Empty"
              /\ ~ENABLED SubscriberStep(c)

\* C18 happens: the loop is gone, no client is left or ever came, or one
\* waits in recv at the tail.
C18_Witness ==
    /\ ingest = "panicked"
    /\ \E c \in Conns : task[c] = "recv" /\ next[c] = tail /\ conn[c] = "open"
    /\ \E d \in Conns : task[d] = "done"

=============================================================================
